---- MODULE Spec2Model ----
(***************************************************************************)
(* A model of the horsehttp / worsehttp connection engine.                 *)
(*                                                                         *)
(*   Spec      one connection going through handle() of src/src/lib.rs,   *)
(*             with an arbitrary handler driving the Client operations of  *)
(*             src/src/client.rs (a superset of the Client of lib.rs).     *)
(*   ServeSpec the accept loop of serve() spawning one worker per          *)
(*             connection.                                                 *)
(*   SemSpec   the counting semaphore of src/src/semaphore.rs used by a    *)
(*             set of threads.                                             *)
(***************************************************************************)
EXTENDS Integers, Sequences, FiniteSets, TLC

VARIABLES
    stage,      \* position of the worker inside handle()
    client,     \* the Client: requested.version and the Response fields
    stream,     \* log of the writes made on the TcpStream, in program order
    outcome,    \* how the worker left handle(): none, before_failed,
                \* parse_failed, ok, err (what the handler returned) or panic
    last,       \* the last Client operation of the handler and its result
    ops,        \* Client operations the handler has made so far
    faults,     \* I/O errors the connection has raised so far
    overrides,  \* the methods of HttpRequestHandler the application implements
    hook,       \* the method the default handle() has dispatched to
    rd,         \* a caller reading the request body: the inputs, the
                \* pre-read bytes, the live connection, the Take limit,
                \* the bytes returned so far
    hr,         \* read_headers(): the source, the BufReader, ret, lines
    accepted,   \* serve(): connections accepted so far
    workers,    \* serve(): state of the worker thread of each connection
    permits,    \* Semaphore: the count guarded by the mutex
    mutex,      \* Semaphore: owner of the mutex, 0 when free
    waiting,    \* Semaphore: threads parked on the condition variable
    pc,         \* Semaphore users: position of each thread
    holding,    \* Semaphore users: permits each thread took and has not returned
    acquired,   \* Semaphore: acquire() calls that have returned
    released    \* Semaphore: release() calls that have incremented the count

connVars == <<stage, client, stream, outcome, last, ops, faults, overrides, hook>>
ioVars == <<rd, hr>>
others == <<rd, hr, accepted, workers, permits, mutex, waiting, pc, holding, acquired, released>>
serveVars == <<accepted, workers>>
semVars == <<permits, mutex, waiting, pc, holding, acquired, released>>
vars == <<connVars, ioVars, serveVars, semVars>>

----------------------------------------------------------------------------
(* Bounds *)

MaxOps == 3          \* Client operations one handler call makes
MaxFaults == 1       \* I/O errors one connection raises
MaxConns == 4        \* connections the accept loop takes
NumThreads == 2      \* threads using the semaphore
MaxCalls == 3        \* acquire/release calls counted on the semaphore
MaxPre == 2          \* pre-read body bytes left by read_headers
MaxLive == 2         \* body bytes the live connection still offers
MaxLen == 3          \* Content-Length
MaxBuf == 3          \* size of the buffer given to read
MaxInput == 5        \* bytes the peer sends before it ends the stream
BufCap == 3          \* capacity of the BufReader of read_headers
MaxLines == 5        \* turns of the loop of read_headers

(* Inputs *)

Versions == {0, 1}                      \* httparse minor version
Methods == {"GET", "HEAD", "POST", "PUT"}
Impls == {{"handle"}, {}, {"do_get"}, {"do_get", "do_post"}}
Codes == {404}
Messages == {"Not Found", "Bad\r\nX: y"}
Bufs == {"hi"}

----------------------------------------------------------------------------
(* The wire *)

Terminator == "Connection: close\r\n\r\n"

\* the 400 literal naming the wrong protocol version
Lit400_http11 == "HTTP/1.1 400 Bad Request\r\nConnection: close\r\n\r\nerr: bad request\r\n"

Lit400 == "HTTP/1.0 400 Bad Request\r\nConnection: close\r\n\r\nerr: bad request\r\n"

Lit500 == "HTTP/1.{} 500 Internal Server Error\r\nConnection: close\r\n\r\nerr: internal\r\n"

\* write!(stream, "HTTP/1.{} {} {}\r\n", version, code, message)
StatusLine(cl) ==
    "HTTP/1." \o ToString(cl.version) \o " " \o ToString(cl.code)
        \o " " \o cl.message \o "\r\n"

\* the control characters a TLA+ string can hold, of char::is_ascii_control
ControlChars == {"\t", "\n", "\f", "\r"}

is_ascii_control(c) == c \in ControlChars

ContainsControl(s) ==
    \E i \in 1..Len(s) : is_ascii_control(SubSeq(s, i, i))

\* Response::default() inside a Client built for a request of minor version v
NewClient(v, m) ==
    [built |-> TRUE, version |-> v, method |-> m,
     code |-> 200, message |-> "Ok", sent |-> FALSE]

\* no Client exists yet
NoClient ==
    [built |-> FALSE, version |-> 0, method |-> "",
     code |-> 0, message |-> "", sent |-> FALSE]

\* byte counts at which a failing write stops
FaultCuts(buf) == {k \in 0..(Len(buf) - 1) : k = 0 \/ k = Len(buf) \div 2}

\* one write call on the stream: where it came from, what it was given,
\* how many bytes of it went out
Wrote(site, buf, n) == [site |-> site, buf |-> buf, n |-> n]

\* TcpStream::write_all(buf): all of buf goes out, or a prefix and an error
StreamWriteAll(w, site, buf) ==
    {[w |-> [w EXCEPT !.stream = Append(@, Wrote(site, buf, Len(buf)))],
      ok |-> TRUE]}
    \cup
    {[w |-> [w EXCEPT !.stream = Append(@, Wrote(site, buf, k)),
                      !.faults = @ + 1],
      ok |-> FALSE] : k \in IF w.faults < MaxFaults THEN FaultCuts(buf) ELSE {}}

\* TcpStream::write(buf): some non-empty prefix goes out, or nothing and an error
StreamWrite(w, site, buf) ==
    {[w |-> [w EXCEPT !.stream = Append(@, Wrote(site, buf, k))],
      ok |-> TRUE] : k \in IF Len(buf) = 0 THEN {0} ELSE 1..Len(buf)}
    \cup
    (IF w.faults < MaxFaults
     THEN {[w |-> [w EXCEPT !.stream = Append(@, Wrote(site, buf, 0)),
                            !.faults = @ + 1],
            ok |-> FALSE]}
     ELSE {})

\* the bytes on the wire
RECURSIVE Wire(_)
Wire(st) ==
    IF st = <<>> THEN ""
    ELSE Wire(SubSeq(st, 1, Len(st) - 1))
            \o SubSeq(st[Len(st)].buf, 1, st[Len(st)].n)

----------------------------------------------------------------------------
(* Client, src/src/client.rs.  w = [client, stream, faults]; every         *)
(* operation yields the set of its possible outcomes [w, ok].              *)

response_sent(w) == w.client.sent

\* write_response that marks the response as sent only after both writes
write_response_sent_last(w) ==
    LET line == StreamWriteAll(w, "status", StatusLine(w.client))
        term == UNION {StreamWriteAll(x.w, "term", Terminator) :
                          x \in {y \in line : y.ok}}
    IN  {x \in line : ~x.ok}
        \cup {x \in term : ~x.ok}
        \cup {[w |-> [x.w EXCEPT !.client.sent = TRUE], ok |-> TRUE] :
                 x \in {y \in term : y.ok}}

\* write_response without the "Connection: close" terminator
write_response_no_terminator(w) ==
    StreamWriteAll([w EXCEPT !.client.sent = TRUE], "status",
                   StatusLine(w.client))

write_response(w) ==
    LET w1 == [w EXCEPT !.client.sent = TRUE]
        line == StreamWriteAll(w1, "status", StatusLine(w1.client))
    IN  {a \in line : ~a.ok}
        \cup UNION {StreamWriteAll(a.w, "term", Terminator) : a \in {x \in line : x.ok}}

\* the flush before a body write made without looking at the sent flag
send_response_always(w) == write_response(w)

send_response_if_not_already_sent(w) ==
    IF response_sent(w) THEN {[w |-> w, ok |-> TRUE]} ELSE write_response(w)

send_response(w) ==
    IF response_sent(w) THEN {[w |-> w, ok |-> FALSE]} ELSE write_response(w)

\* set_response without the check of the message
set_response_unvalidated(w, code, message) ==
    IF response_sent(w) THEN {[w |-> w, ok |-> FALSE]}
    ELSE {[w |-> [w EXCEPT !.client.code = code, !.client.message = message],
           ok |-> TRUE]}

\* set_response without the check of the sent flag
set_response_unchecked(w, code, message) ==
    IF ContainsControl(message) THEN {[w |-> w, ok |-> FALSE]}
    ELSE {[w |-> [w EXCEPT !.client.code = code, !.client.message = message],
           ok |-> TRUE]}

set_response(w, code, message) ==
    IF response_sent(w) THEN {[w |-> w, ok |-> FALSE]}
    ELSE IF ContainsControl(message) THEN {[w |-> w, ok |-> FALSE]}
    ELSE {[w |-> [w EXCEPT !.client.code = code, !.client.message = message],
           ok |-> TRUE]}

\* the raw write made without marking the response as sent
write_all_overriding_headers_unset(w, buf) == StreamWriteAll(w, "raw", buf)

write_all_overriding_headers(w, buf) ==
    StreamWriteAll([w EXCEPT !.client.sent = TRUE], "raw", buf)

write(w, buf) ==
    LET hdr == send_response_if_not_already_sent(w)
    IN  {a \in hdr : ~a.ok}
        \cup UNION {StreamWrite(a.w, "body", buf) : a \in {x \in hdr : x.ok}}

write_all(w, buf) ==
    LET hdr == send_response_if_not_already_sent(w)
    IN  {a \in hdr : ~a.ok}
        \cup UNION {StreamWriteAll(a.w, "body", buf) : a \in {x \in hdr : x.ok}}

\* TcpStream::flush does nothing
flush(w) == {[w |-> w, ok |-> TRUE]}

----------------------------------------------------------------------------
(* handle(), src/src/lib.rs *)

World == [client |-> client, stream |-> stream, faults |-> faults]

\* an operation of the handler took the connection to outcome o
Took(op, code, arg, o) ==
    /\ client' = o.w.client
    /\ stream' = o.w.stream
    /\ faults' = o.w.faults
    /\ last' = [op |-> op, code |-> code, arg |-> arg, ok |-> o.ok]

\* handle() going on to parse after a failed pre-hook
Before_unchecked ==
    /\ stage = "accepted"
    /\ \E ok \in BOOLEAN :
          /\ stage' = "parsing"
          /\ outcome' = IF ok THEN outcome ELSE "before_failed"
    /\ \E i \in Impls : overrides' = i
    /\ UNCHANGED <<client, stream, last, ops, faults, hook, others>>

\* handler.before(&mut stream, &mut addr)?
Before ==
    /\ stage = "accepted"
    /\ \E ok \in BOOLEAN :
          /\ stage' = IF ok THEN "parsing" ELSE "closed"
          /\ outcome' = IF ok THEN outcome ELSE "before_failed"
    /\ \E i \in Impls : overrides' = i
    /\ UNCHANGED <<client, stream, last, ops, faults, hook, others>>

\* parse_request(&mut stream) succeeded: the Client is built and handed
\* to handler.handle
ParseOk ==
    /\ stage = "parsing"
    /\ \E v \in Versions, m \in Methods : client' = NewClient(v, m)
    /\ stage' = "dispatched"
    /\ UNCHANGED <<stream, outcome, last, ops, faults, overrides, hook, others>>

\* parse_request(&mut stream) failed
ParseFail ==
    /\ stage = "parsing"
    /\ \E o \in StreamWriteAll(World, "lit400", Lit400) :
          /\ stream' = o.w.stream
          /\ faults' = o.w.faults
    /\ stage' = "closed"
    /\ outcome' = "parse_failed"
    /\ UNCHANGED <<client, last, ops, overrides, hook, others>>

InHandler ==
    /\ stage = "dispatched"
    /\ outcome = "none"

\* the method of HttpRequestHandler the default handle() goes to
dispatch(method) ==
    CASE method = "GET" -> "do_get"
      [] method = "HEAD" -> "do_head"
      [] OTHER -> "fallback"

\* code of the application is running: its own handle(), or the hook the
\* default handle() went to
Custom ==
    /\ InHandler
    /\ "handle" \in overrides \/ hook \in overrides

HandlerOp(op, code, arg, outcomes) ==
    /\ Custom
    /\ ops < MaxOps
    /\ ops' = ops + 1
    /\ \E o \in outcomes : Took(op, code, arg, o)
    /\ UNCHANGED <<stage, outcome, overrides, hook, others>>

DoSetResponse ==
    \E c \in Codes, m \in Messages :
        HandlerOp("set_response", c, m, set_response(World, c, m))

DoSendResponse == HandlerOp("send_response", 0, "", send_response(World))

DoWrite == \E b \in Bufs : HandlerOp("write", 0, b, write(World, b))

DoWriteAll == \E b \in Bufs : HandlerOp("write_all", 0, b, write_all(World, b))

DoFlush == HandlerOp("flush", 0, "", flush(World))

DoWriteAllOverridingHeaders ==
    \E b \in Bufs :
        HandlerOp("write_all_overriding_headers", 0, b,
                  write_all_overriding_headers(World, b))

\* the end of handle() without the test of client.response.sent
AfterHandler_unchecked(w, st) ==
    IF st = "err"
    THEN StreamWriteAll(w, "lit500", Lit500)
    ELSE write_response(w)

\* what handle() does once handler.handle has returned st
AfterHandler(w, st) ==
    IF ~w.client.sent
    THEN IF st = "err"
         THEN StreamWriteAll(w, "lit500", Lit500)
         ELSE send_response(w)
    ELSE {[w |-> w, ok |-> TRUE]}

\* handler.handle returns Ok or Err and handle() runs to its end
HandlerReturn ==
    /\ Custom
    /\ \E st \in {"ok", "err"} :
          /\ outcome' = st
          /\ \E o \in AfterHandler(World, st) :
                /\ client' = o.w.client
                /\ stream' = o.w.stream
                /\ faults' = o.w.faults
    /\ stage' = "closed"
    /\ UNCHANGED <<last, ops, overrides, hook, others>>

\* the default handle() goes to a hook the application implements
DispatchToHook ==
    /\ InHandler
    /\ "handle" \notin overrides
    /\ hook = "none"
    /\ dispatch(client.method) \in overrides
    /\ hook' = dispatch(client.method)
    /\ UNCHANGED <<stage, client, stream, outcome, last, ops, faults,
                   overrides, others>>

\* the default handle() ends in code of the trait: the default do_get or
\* do_head, or the last arm of the match; each is
\* client.set_response(405, "Method Not Allowed"), and handle() of lib.rs
\* goes on with the result
DefaultHandle ==
    /\ InHandler
    /\ "handle" \notin overrides
    /\ hook = "none"
    /\ dispatch(client.method) \notin overrides
    /\ hook' = dispatch(client.method)
    /\ \E r \in set_response(World, 405, "Method Not Allowed") :
          /\ last' = [op |-> "set_response", code |-> 405,
                      arg |-> "Method Not Allowed", ok |-> r.ok]
          /\ outcome' = IF r.ok THEN "ok" ELSE "err"
          /\ \E o \in AfterHandler(r.w, IF r.ok THEN "ok" ELSE "err") :
                /\ client' = o.w.client
                /\ stream' = o.w.stream
                /\ faults' = o.w.faults
    /\ ops' = ops + 1
    /\ stage' = "closed"
    /\ UNCHANGED <<overrides, others>>

\* handler.handle panics: the unwinding leaves handle() and drops the
\* stream; catch_unwind in the worker closure of serve() stops it
HandlerPanic ==
    /\ Custom
    /\ outcome' = "panic"
    /\ stage' = "closed"
    /\ UNCHANGED <<client, stream, last, ops, faults, overrides, hook, others>>

Next ==
    \/ Before
    \/ ParseOk
    \/ ParseFail
    \/ DoSetResponse
    \/ DoSendResponse
    \/ DoWrite
    \/ DoWriteAll
    \/ DoFlush
    \/ DoWriteAllOverridingHeaders
    \/ HandlerReturn
    \/ HandlerPanic
    \/ DispatchToHook
    \/ DefaultHandle

ConnInit ==
    /\ stage = "accepted"
    /\ client = NoClient
    /\ stream = <<>>
    /\ outcome = "none"
    /\ last = [op |-> "none", code |-> 0, arg |-> "", ok |-> TRUE]
    /\ ops = 0
    /\ faults = 0
    /\ overrides = {}
    /\ hook = "none"

----------------------------------------------------------------------------
(* Reading the request body: Client::read, BodyReader, src/src/client.rs *)

Prefix(s, k) == SubSeq(s, 1, k)

Suffix(s, k) == SubSeq(s, k + 1, Len(s))

Min(a, b) == IF a < b THEN a ELSE b

\* the bytes of a request body: those already pulled in by read_headers
\* and those still to come on the connection
PreBytes == {Prefix("abcdefgh", k) : k \in 0..MaxPre}

LiveBytes == {Prefix("stuvwxyz", k) : k \in 0..MaxLive}

\* TcpStream::read(buf) with buf.len() = n on a connection offering cn:
\* some bytes, at least one, or none at the end of the stream
StreamRead(cn, n) ==
    IF cn = "" THEN {0} ELSE 1..Min(n, Len(cn))

\* impl Read for Client: read(buf) with buf.len() = n
ClientRead(r, n) ==
    IF n = 0
    THEN {[r |-> r, kind |-> "ok", data |-> ""]}
    ELSE IF r.body_start = ""
    THEN {[r |-> [r EXCEPT !.conn = Suffix(@, k)],
           kind |-> "ok", data |-> Prefix(r.conn, k)] : k \in StreamRead(r.conn, n)}
    ELSE LET to_reply == Min(n, Len(r.body_start))
         IN  \* buf.copy_from_slice(src) panics unless buf.len() = src.len()
             IF n # to_reply
             THEN {[r |-> r, kind |-> "panic", data |-> ""]}
             ELSE {[r |-> [r EXCEPT !.body_start = Suffix(@, to_reply)],
                    kind |-> "ok", data |-> Prefix(r.body_start, to_reply)]}

\* io::Take::read over the Client, as BodyReader::read calls it
TakeRead(r, n) ==
    IF r.limit = 0
    THEN {[r |-> r, kind |-> "ok", data |-> ""]}
    ELSE {[o EXCEPT !.r.limit = @ - Len(o.data)] :
              o \in ClientRead(r, Min(n, r.limit))}

NoReader ==
    [via |-> "none", pre |-> "", live |-> "", clen |-> 0, bufsz |-> 0,
     body_start |-> "", conn |-> "", limit |-> 0, got |-> "", state |-> "idle"]

\* client.body_reader() with Content-Length: len, for a caller that reads
\* to the end with a buffer of n bytes
BodyReaderOpen ==
    /\ rd.state = "idle"
    /\ \E pre \in PreBytes, live \in LiveBytes, len \in 0..MaxLen, n \in 1..MaxBuf :
          rd' = [via |-> "body_reader", pre |-> pre, live |-> live,
                 clen |-> len, bufsz |-> n,
                 body_start |-> pre, conn |-> live, limit |-> len,
                 got |-> "", state |-> "reading"]
    /\ UNCHANGED <<connVars, hr, serveVars, semVars>>

\* a caller that reads the Client itself to the end with a buffer of n bytes
ClientReadOpen ==
    /\ rd.state = "idle"
    /\ \E pre \in PreBytes, live \in LiveBytes, n \in 1..MaxBuf :
          rd' = [via |-> "client", pre |-> pre, live |-> live,
                 clen |-> 0, bufsz |-> n,
                 body_start |-> pre, conn |-> live, limit |-> 0,
                 got |-> "", state |-> "reading"]
    /\ UNCHANGED <<connVars, hr, serveVars, semVars>>

\* one call of read(buf) by that caller; a return of 0 ends the reading
ReadCall ==
    /\ rd.state = "reading"
    /\ \E o \in IF rd.via = "body_reader" THEN TakeRead(rd, rd.bufsz)
                                          ELSE ClientRead(rd, rd.bufsz) :
          rd' = [o.r EXCEPT !.got = @ \o o.data,
                            !.state = IF o.kind = "panic" THEN "panicked"
                                      ELSE IF o.data = "" THEN "eof"
                                      ELSE "reading"]
    /\ UNCHANGED <<connVars, hr, serveVars, semVars>>

ReadNext ==
    \/ BodyReaderOpen
    \/ ClientReadOpen
    \/ ReadCall

----------------------------------------------------------------------------
(* read_headers(), src/src/req.rs *)

Alphabet == {"G", "\r", "\n"}

\* the byte streams of at most n bytes
RECURSIVE Streams(_)
Streams(n) ==
    IF n = 0 THEN {""}
    ELSE LET shorter == Streams(n - 1)
         IN  shorter \cup {s \o c : s \in {x \in shorter : Len(x) = n - 1},
                                    c \in Alphabet}

ends_with(s, t) ==
    /\ Len(s) >= Len(t)
    /\ SubSeq(s, Len(s) - Len(t) + 1, Len(s)) = t

\* position of the first newline of s, 0 when it has none
FirstNewline(s) ==
    IF \E i \in 1..Len(s) : SubSeq(s, i, i) = "\n"
    THEN CHOOSE i \in 1..Len(s) :
            /\ SubSeq(s, i, i) = "\n"
            /\ \A j \in 1..(i - 1) : SubSeq(s, j, j) # "\n"
    ELSE 0

\* BufReader::read_until(b'\n', &mut ret) with the read-ahead thrown away
\* once the line is complete
RECURSIVE read_until_dropping(_)
read_until_dropping(h) ==
    IF h.buf # ""
    THEN LET i == FirstNewline(h.buf)
         IN  IF i > 0
             THEN {[h EXCEPT !.ret = @ \o Prefix(h.buf, i), !.buf = ""]}
             ELSE read_until_dropping([h EXCEPT !.ret = @ \o h.buf, !.buf = ""])
    ELSE IF h.src = ""
    THEN {[h EXCEPT !.eof = TRUE]}
    ELSE UNION {read_until_dropping([h EXCEPT !.buf = Prefix(h.src, k),
                                             !.src = Suffix(h.src, k)]) :
                   k \in 1..Min(BufCap, Len(h.src))}

\* BufReader::read_until(b'\n', &mut ret): take what is buffered up to and
\* with the first newline; without one take it all and fill the buffer
\* again with what one read of the source gives; stop at its end
RECURSIVE read_until(_)
read_until(h) ==
    IF h.buf # ""
    THEN LET i == FirstNewline(h.buf)
         IN  IF i > 0
             THEN {[h EXCEPT !.ret = @ \o Prefix(h.buf, i),
                             !.buf = Suffix(h.buf, i)]}
             ELSE read_until([h EXCEPT !.ret = @ \o h.buf, !.buf = ""])
    ELSE IF h.src = ""
    THEN {[h EXCEPT !.eof = TRUE]}
    ELSE UNION {read_until([h EXCEPT !.buf = Prefix(h.src, k),
                                    !.src = Suffix(h.src, k)]) :
                   k \in 1..Min(BufCap, Len(h.src))}

NoHeaders ==
    [input |-> "", src |-> "", buf |-> "", ret |-> "", lines |-> 0,
     eof |-> FALSE, state |-> "idle"]

\* read_headers(from) is called on a connection that will deliver input
HeadersOpen ==
    /\ hr.state = "idle"
    /\ \E input \in Streams(MaxInput) :
          hr' = [input |-> input, src |-> input, buf |-> "", ret |-> "",
                 lines |-> 0, eof |-> FALSE, state |-> "reading"]
    /\ UNCHANGED <<connVars, rd, serveVars, semVars>>

\* one turn of the loop of read_headers
HeadersLine ==
    /\ hr.state = "reading"
    /\ hr.lines < MaxLines
    /\ \E h \in read_until(hr) :
          hr' = [h EXCEPT
                   !.lines = @ + 1,
                   !.state = IF ~ends_with(h.ret, "\n") THEN "panicked"
                             ELSE IF \/ ends_with(h.ret, "\n\r\n")
                                     \/ ends_with(h.ret, "\n\n")
                                  THEN "done"
                             ELSE "reading"]
    /\ UNCHANGED <<connVars, rd, serveVars, semVars>>

HeadersNext ==
    \/ HeadersOpen
    \/ HeadersLine

----------------------------------------------------------------------------
(* serve(), src/src/lib.rs: the accept loop and the worker closures *)

Conns == 1..MaxConns

Live == {c \in Conns : workers[c] = "running"}

Exited == {c \in Conns : workers[c] \in {"finished", "failed", "panicked"}}

\* one turn of the loop: listen.accept()?, handler(&addr), thread::spawn
Accept ==
    /\ accepted < MaxConns
    /\ accepted' = accepted + 1
    /\ workers' = [workers EXCEPT ![accepted + 1] = "running"]
    /\ UNCHANGED <<connVars, ioVars, semVars>>

\* the closure of a worker runs to its end: handle() returned Ok, returned
\* Err (logged), or panicked (caught by catch_unwind and logged)
WorkerExit ==
    /\ \E c \in Live, how \in {"finished", "failed", "panicked"} :
          workers' = [workers EXCEPT ![c] = how]
    /\ UNCHANGED <<accepted, connVars, ioVars, semVars>>

ServeInit ==
    /\ accepted = 0
    /\ workers = [c \in Conns |-> "none"]

ServeNext ==
    \/ Accept
    \/ WorkerExit

----------------------------------------------------------------------------
(* Semaphore, src/src/semaphore.rs, and the threads calling it *)

Capacity == 1        \* the count given to Semaphore::new

Threads == 1..NumThreads

\* Semaphore::new(count)
new(count) ==
    /\ permits = count
    /\ mutex = 0
    /\ waiting = {}

\* a lock that does not wait for the mutex to be free
lock_unguarded(t) == mutex' = t

\* self.permits.lock(): the mutex is free and t takes it
lock(t) ==
    /\ mutex = 0
    /\ mutex' = t

\* a thread calls acquire()
AcquireCall ==
    /\ acquired < MaxCalls
    /\ \E t \in Threads :
          /\ pc[t] = "idle"
          /\ pc' = [pc EXCEPT ![t] = "acq_lock"]
    /\ UNCHANGED <<permits, mutex, waiting, holding, acquired, released>>
    /\ UNCHANGED <<connVars, ioVars, serveVars>>

\* acquire() with "if" for "while": a woken thread takes a permit untested
AcquireLock_if ==
    /\ \E t \in Threads :
          /\ pc[t] \in {"acq_lock", "acq_woken"}
          /\ lock(t)
          /\ pc' = [pc EXCEPT ![t] = IF pc[t] = "acq_woken" THEN "acq_dec"
                                                            ELSE "acq_test"]
    /\ UNCHANGED <<permits, waiting, holding, acquired, released>>
    /\ UNCHANGED <<connVars, ioVars, serveVars>>

\* let mut count = self.permits.lock().unwrap();
\* and the return of not_empty.wait(count), which takes the mutex again
AcquireLock ==
    /\ \E t \in Threads :
          /\ pc[t] \in {"acq_lock", "acq_woken"}
          /\ lock(t)
          /\ pc' = [pc EXCEPT ![t] = "acq_test"]
    /\ UNCHANGED <<permits, waiting, holding, acquired, released>>
    /\ UNCHANGED <<connVars, ioVars, serveVars>>

\* while 0 == *count { count = self.not_empty.wait(count).unwrap(); }
AcquireTest ==
    /\ \E t \in Threads :
          /\ pc[t] = "acq_test"
          /\ IF 0 = permits
             THEN /\ mutex' = 0
                  /\ waiting' = waiting \cup {t}
                  /\ pc' = [pc EXCEPT ![t] = "acq_wait"]
             ELSE /\ pc' = [pc EXCEPT ![t] = "acq_dec"]
                  /\ UNCHANGED <<mutex, waiting>>
    /\ UNCHANGED <<permits, holding, acquired, released>>
    /\ UNCHANGED <<connVars, ioVars, serveVars>>

\* *count -= 1; and the guard is dropped on return
AcquireTake ==
    /\ \E t \in Threads :
          /\ pc[t] = "acq_dec"
          /\ permits' = permits - 1
          /\ mutex' = 0
          /\ pc' = [pc EXCEPT ![t] = "idle"]
          /\ holding' = [holding EXCEPT ![t] = @ + 1]
    /\ acquired' = acquired + 1
    /\ UNCHANGED <<waiting, released>>
    /\ UNCHANGED <<connVars, ioVars, serveVars>>

\* a thread that took a permit calls release()
ReleaseCall ==
    /\ released < MaxCalls
    /\ \E t \in Threads :
          /\ pc[t] = "idle"
          /\ holding[t] > 0
          /\ holding' = [holding EXCEPT ![t] = @ - 1]
          /\ pc' = [pc EXCEPT ![t] = "rel_lock"]
    /\ UNCHANGED <<permits, mutex, waiting, acquired, released>>
    /\ UNCHANGED <<connVars, ioVars, serveVars>>

\* a thread that holds no permit calls release()
ReleaseCallUnpaired ==
    /\ released < MaxCalls
    /\ \E t \in Threads :
          /\ pc[t] = "idle"
          /\ holding[t] = 0
          /\ pc' = [pc EXCEPT ![t] = "rel_lock"]
    /\ UNCHANGED <<permits, mutex, waiting, holding, acquired, released>>
    /\ UNCHANGED <<connVars, ioVars, serveVars>>

\* *self.permits.lock().unwrap() += 1;
ReleaseAdd ==
    /\ \E t \in Threads :
          /\ pc[t] = "rel_lock"
          /\ lock(t)
          /\ pc' = [pc EXCEPT ![t] = "rel_unlock"]
    /\ permits' = permits + 1
    /\ released' = released + 1
    /\ UNCHANGED <<waiting, holding, acquired>>
    /\ UNCHANGED <<connVars, ioVars, serveVars>>

\* the guard of that statement is dropped at its end
ReleaseUnlock ==
    /\ \E t \in Threads :
          /\ pc[t] = "rel_unlock"
          /\ pc' = [pc EXCEPT ![t] = "rel_notify"]
    /\ mutex' = 0
    /\ UNCHANGED <<permits, waiting, holding, acquired, released>>
    /\ UNCHANGED <<connVars, ioVars, serveVars>>

\* release() without the notification
ReleaseNotify_none ==
    /\ \E t \in Threads :
          /\ pc[t] = "rel_notify"
          /\ pc' = [pc EXCEPT ![t] = "idle"]
    /\ UNCHANGED <<permits, mutex, waiting, holding, acquired, released>>
    /\ UNCHANGED <<connVars, ioVars, serveVars>>

\* self.not_empty.notify_one();
ReleaseNotify ==
    /\ \E t \in Threads :
          /\ pc[t] = "rel_notify"
          /\ IF waiting = {}
             THEN pc' = [pc EXCEPT ![t] = "idle"] /\ UNCHANGED waiting
             ELSE \E u \in waiting :
                     /\ waiting' = waiting \ {u}
                     /\ pc' = [pc EXCEPT ![t] = "idle", ![u] = "acq_woken"]
    /\ UNCHANGED <<permits, mutex, holding, acquired, released>>
    /\ UNCHANGED <<connVars, ioVars, serveVars>>

\* Condvar::wait may return without a notification
SpuriousWake ==
    /\ \E u \in waiting :
          /\ waiting' = waiting \ {u}
          /\ pc' = [pc EXCEPT ![u] = "acq_woken"]
    /\ UNCHANGED <<permits, mutex, holding, acquired, released>>
    /\ UNCHANGED <<connVars, ioVars, serveVars>>

SemInit ==
    /\ new(Capacity)
    /\ pc = [t \in Threads |-> "idle"]
    /\ holding = [t \in Threads |-> 0]
    /\ acquired = 0
    /\ released = 0

\* every release() returns a permit its caller took
SemNext ==
    \/ AcquireCall
    \/ AcquireLock
    \/ AcquireTest
    \/ AcquireTake
    \/ ReleaseCall
    \/ ReleaseAdd
    \/ ReleaseUnlock
    \/ ReleaseNotify
    \/ SpuriousWake

\* a step thread t takes by itself inside acquire() or release()
Step(t) ==
    /\ pc[t] \notin {"idle", "acq_wait"}
    /\ \/ AcquireLock
       \/ AcquireTest
       \/ AcquireTake
       \/ ReleaseAdd
       \/ ReleaseUnlock
       \/ ReleaseNotify
    /\ pc'[t] # pc[t]

\* fair scheduling: a thread inside acquire() or release() that can go on,
\* again and again, does go on
Fairness == \A t \in Threads : SF_vars(Step(t))

\* acquire() and release() called in any order
SemAnyNext ==
    \/ SemNext
    \/ ReleaseCallUnpaired

----------------------------------------------------------------------------

IoInit ==
    /\ rd = NoReader
    /\ hr = NoHeaders

Init == ConnInit /\ IoInit /\ ServeInit /\ SemInit

Spec == Init /\ [][Next]_vars

ReadSpec == Init /\ [][ReadNext]_vars

HeadersSpec == Init /\ [][HeadersNext]_vars

ServeSpec == Init /\ [][ServeNext]_vars

SemSpec == Init /\ [][SemNext]_vars

SemFairSpec == Init /\ [][SemNext]_vars /\ Fairness

SemAnySpec == Init /\ [][SemAnyNext]_vars

----------------------------------------------------------------------------
(* Properties *)

\* C1: on one connection the status line and the "Connection: close"
\* terminator are each written at most once, the status line first, and
\* both before every body byte; send_response on a response that was
\* already sent fails and writes nothing.
C1_StatusLineOnce ==
    /\ [](LET at(site) == {i \in DOMAIN stream : stream[i].site = site}
              head == at("status") \cup at("term")
              body == at("body") \cup at("raw")
          IN  /\ Cardinality(at("status")) <= 1
              /\ Cardinality(at("term")) <= 1
              /\ \A i \in at("status"), j \in at("term") : i < j
              /\ \A i \in head, j \in body : i < j)
    /\ [][(/\ client.sent
           /\ ops' = ops + 1
           /\ last'.op = "send_response")
              => (~last'.ok /\ stream' = stream)]_vars

\* the handler wrote twice: one status line, one terminator, two body writes
C1_Witness ==
    /\ stage = "closed"
    /\ \E i \in DOMAIN stream : stream[i].site = "status"
    /\ \E j \in DOMAIN stream : stream[j].site = "term"
    /\ Cardinality({k \in DOMAIN stream : stream[k].site = "body"}) >= 2

\* C2: once the response has been sent, set_response fails and changes
\* neither the status code nor the status message, and no step takes the
\* sent flag back from true to false.
C2_SentIsFinal ==
    [][client.sent =>
          /\ client'.sent
          /\ client'.code = client.code
          /\ client'.message = client.message
          /\ (ops' = ops + 1 /\ last'.op = "set_response") => ~last'.ok]_vars

\* set_response with a clean message was refused on a sent response
C2_Witness ==
    /\ client.sent
    /\ last.op = "set_response"
    /\ ~ContainsControl(last.arg)
    /\ ~last.ok

\* C3: when the handler returns an error with no response sent, the
\* engine writes one response whose status line is
\* "HTTP/1.<v> 500 Internal Server Error" with v 0 or 1, then the
\* terminator, then a diagnostic body, and nothing else.
C3_Synthesized500 ==
    (outcome = "err" /\ \E i \in DOMAIN stream : stream[i].site = "lit500")
        => /\ Len(stream) = 1
           /\ \E v \in {"0", "1"} :
                 LET want == "HTTP/1." \o v \o " 500 Internal Server Error\r\n"
                                \o "Connection: close\r\n\r\n"
                 IN  /\ Len(stream[1].buf) > Len(want)
                     /\ SubSeq(stream[1].buf, 1, Len(want)) = want

\* C4: a handler panic with no response sent ends with a 500 response on
\* the connection, like an error returned by the handler.
C4_PanicGets500 ==
    (outcome = "panic" /\ ~client.sent)
        => \E i \in DOMAIN stream : stream[i].site = "lit500"

\* C5: when the response has already been sent at the end of the handler
\* call (return Ok, return Err or panic), the engine writes nothing more.
C5_NothingAfterSent ==
    [][(InHandler /\ client.sent /\ outcome' # "none")
          => stream' = stream]_vars

\* the handler wrote, then failed, and the wire holds the handler's writes only
C5_Witness ==
    /\ outcome = "err"
    /\ client.sent
    /\ \E i \in DOMAIN stream : stream[i].site = "body"
    /\ \A i \in DOMAIN stream : stream[i].site # "lit500"

\* C6: when parsing fails the engine makes one write, of the literal 400
\* response, which is all the wire holds unless that write met an I/O
\* error; no Client is built and the handler is not called.
C6_BadRequest ==
    outcome = "parse_failed"
        => LET want == "HTTP/1.0 400 Bad Request\r\nConnection: close\r\n\r\n"
                           \o "err: bad request\r\n"
           IN  /\ Len(stream) = 1
               /\ stream[1].buf = want
               /\ faults = 0 => Wire(stream) = want
               /\ ~client.built
               /\ ops = 0
               /\ last.op = "none"

\* a parse failure answered in full
C6_Witness ==
    /\ outcome = "parse_failed"
    /\ stage = "closed"
    /\ faults = 0
    /\ Len(Wire(stream)) = 65

\* C7: the connections being handled at one time never number more than
\* the admission capacity.
C7_BoundedWorkers == Cardinality(Live) <= Capacity

\* C8: every worker that has exited has released the permit of its
\* connection, once.
C8_PermitReleasedOnExit == released = Cardinality(Exited)

\* C9 as stated: under any order of acquire and release calls the count
\* stays within 0..Capacity.
C9_WithinCapacity == 0 <= permits /\ permits <= Capacity

\* C9 amended: the count is never negative, and it is at most Capacity
\* whenever no more release calls than acquire calls have completed.
C9_NeverNegative ==
    /\ 0 <= permits
    /\ released <= acquired => permits <= Capacity

\* acquires and releases have interleaved and a caller is parked at count 0
C9_Witness ==
    /\ permits = 0
    /\ acquired > Capacity
    /\ released > 0
    /\ waiting # {}

\* C10: acquire takes a permit only while the count is above 0 and while
\* holding the mutex alone, so the permits held never number more than
\* Capacity and a caller in excess stays blocked.
C10_AcquireBlocksAtZero ==
    LET held[S \in SUBSET Threads] ==
            IF S = {} THEN 0
            ELSE LET t == CHOOSE x \in S : TRUE
                 IN  holding[t] + held[S \ {t}]
    IN  /\ \A t \in Threads : pc[t] = "acq_dec" => permits > 0
        /\ \A t \in Threads :
              pc[t] \in {"acq_test", "acq_dec", "rel_unlock"} => mutex = t
        /\ held[Threads] <= Capacity
        /\ held[Threads] = Capacity => \A t \in Threads : pc[t] # "acq_dec"

\* Capacity permits are held and a further caller is parked
C10_Witness ==
    /\ permits = 0
    /\ released = 0
    /\ acquired = Capacity
    /\ waiting # {}


\* C16: the default handle goes to do_get for GET, do_head for HEAD,
\* do_post for POST, and for any other method to no hook, setting 405
\* Method Not Allowed; with nothing overridden every request ends with a
\* 405 status line on the wire.
C16_DefaultDispatch ==
    /\ hook # "none" =>
          hook = CASE client.method = "GET" -> "do_get"
                   [] client.method = "HEAD" -> "do_head"
                   [] client.method = "POST" -> "do_post"
                   [] OTHER -> "fallback"
    /\ (hook = "fallback" /\ stage = "closed") =>
          (client.code = 405 /\ client.message = "Method Not Allowed")
    /\ (overrides = {} /\ stage = "closed" /\ client.built /\ faults = 0) =>
          Wire(stream) = "HTTP/1." \o (IF client.version = 0 THEN "0" ELSE "1")
                            \o " 405 Method Not Allowed\r\n"
                            \o "Connection: close\r\n\r\n"

\* write_all_overriding_headers was called on a response not yet sent
OverrodeHeaders ==
    \E i \in DOMAIN stream :
        /\ stream[i].site = "raw"
        /\ \A j \in 1..(i - 1) : stream[j].site # "status"

\* C17: after write_all_overriding_headers on an unsent response no status
\* line, terminator or 500 text is ever written: later write and write_all
\* put out the caller's bytes only, send_response and set_response fail
\* and the end of handle() writes nothing.
C17_HeadersNeverSent ==
    /\ [](OverrodeHeaders =>
            /\ client.sent
            /\ \A k \in DOMAIN stream :
                  stream[k].site \notin {"status", "term", "lit500"})
    /\ [][(OverrodeHeaders /\ ops' = ops + 1) =>
            /\ last'.op \in {"send_response", "set_response"} =>
                  (~last'.ok /\ stream' = stream)
            /\ last'.op \in {"write", "write_all"} =>
                  /\ Len(stream') = Len(stream) + 1
                  /\ SubSeq(stream', 1, Len(stream)) = stream
                  /\ stream'[Len(stream')].site = "body"
                  /\ stream'[Len(stream')].buf = last'.arg]_vars
    /\ [][(OverrodeHeaders /\ outcome' # outcome) => stream' = stream]_vars

\* a raw write came first, a body write followed, the handler returned Ok
C17_Witness ==
    /\ OverrodeHeaders
    /\ stage = "closed"
    /\ outcome = "ok"
    /\ stream[1].site = "raw"
    /\ \E k \in DOMAIN stream : stream[k].site = "body"

\* C18: when the handler returns Ok with no response sent, the engine
\* writes the status line of the pending code and message and the
\* terminator, and nothing else; the pending values are 200 Ok from the
\* construction of the Client and change only, and always, through a
\* set_response that succeeds.
C18_EmptyResponseFlushed ==
    [][/\ (InHandler /\ ~client.sent /\ outcome' = "ok" /\ faults' = faults) =>
            /\ stream = <<>>
            /\ Len(stream') = 2
            /\ Wire(stream') =
                  "HTTP/1." \o (IF client'.version = 0 THEN "0" ELSE "1")
                     \o " "
                     \o (CASE client'.code = 200 -> "200"
                           [] client'.code = 404 -> "404"
                           [] client'.code = 405 -> "405")
                     \o " " \o client'.message
                     \o "\r\nConnection: close\r\n\r\n"
       /\ (~client.built /\ client'.built) =>
            (client'.code = 200 /\ client'.message = "Ok" /\ ~client'.sent)
       /\ (/\ client.built
           /\ client'.code # client.code \/ client'.message # client.message) =>
            (ops' = ops + 1 /\ last'.op = "set_response" /\ last'.ok)
       /\ (ops' = ops + 1 /\ last'.op = "set_response" /\ last'.ok) =>
            (client'.code = last'.code /\ client'.message = last'.arg)]_vars

\* the handler set 404 Not Found and returned Ok without writing
C18_Witness ==
    /\ outcome = "ok"
    /\ "handle" \in overrides
    /\ Wire(stream) = "HTTP/1.1 404 Not Found\r\nConnection: close\r\n\r\n"

\* C19: a connection goes accepted, parsing, dispatched, closed in that
\* order, or to closed from any of them; the handler runs only on a built
\* Client, after the pre-hook and the parsing succeeded; a failed pre-hook
\* closes the connection with nothing parsed, no handler call and nothing
\* written.
C19_StageOrder ==
    /\ [][stage' # stage =>
            <<stage, stage'>> \in {<<"accepted", "parsing">>,
                                   <<"parsing", "dispatched">>,
                                   <<"dispatched", "closed">>,
                                   <<"accepted", "closed">>,
                                   <<"parsing", "closed">>}]_vars
    /\ []((ops > 0 \/ hook # "none" \/ outcome \in {"ok", "err", "panic"}) =>
            (client.built /\ stage \in {"dispatched", "closed"}))
    /\ [](stage \in {"accepted", "parsing"} => ~client.built)
    /\ [](outcome = "before_failed" =>
            /\ stage = "closed"
            /\ stream = <<>>
            /\ ~client.built
            /\ ops = 0
            /\ hook = "none")

\* the pre-hook failed and the connection is closed
C19_Witness ==
    /\ outcome = "before_failed"
    /\ stage = "closed"

\* s holds none of the control characters
CleanText(s) ==
    \A i \in 1..Len(s) : SubSeq(s, i, i) \notin {"\t", "\n", "\f", "\r"}

\* C20: the pending status message never holds an ASCII control
\* character, nor does a status line given to the stream before its final
\* CR LF; set_response with such a message fails and changes neither the
\* code nor the message.
C20_NoControlInStatus ==
    /\ [](/\ CleanText(client.message)
          /\ \A k \in DOMAIN stream :
                stream[k].site = "status" =>
                    /\ CleanText(SubSeq(stream[k].buf, 1, Len(stream[k].buf) - 2))
                    /\ SubSeq(stream[k].buf, Len(stream[k].buf) - 1,
                              Len(stream[k].buf)) = "\r\n")
    /\ [][(/\ ops' = ops + 1
           /\ last'.op = "set_response"
           /\ ~CleanText(last'.arg)) =>
              /\ ~last'.ok
              /\ client'.code = client.code
              /\ client'.message = client.message]_vars

\* set_response with CR LF in the message was refused on an unsent response
C20_Witness ==
    /\ ~client.sent
    /\ last.op = "set_response"
    /\ last.arg = "Bad\r\nX: y"
    /\ ~last.ok

C12_BodyReaderExact ==
    (rd.via = "body_reader" /\ Len(rd.pre) + Len(rd.live) >= rd.clen) =>
        /\ rd.state # "panicked"
        /\ Len(rd.got) <= rd.clen
        /\ rd.got = Prefix(rd.pre \o rd.live, Len(rd.got))
        /\ rd.state = "eof" => Len(rd.got) = rd.clen

\* C13: for every buffer size Client::read gives the pre-read bytes first,
\* in order, none dropped or doubled, then the bytes of the connection.
C13_PreReadFirst ==
    rd.via = "client" =>
        /\ rd.state # "panicked"
        /\ rd.got = Prefix(rd.pre \o rd.live, Len(rd.got))
        /\ rd.conn # rd.live => rd.body_start = ""
        /\ rd.state = "eof" => rd.got = rd.pre \o rd.live

\* a blank line of s ends at position i: a line feed that follows, with at
\* most a carriage return between, the line feed of the line before
BlankLineAt(s, i) ==
    /\ SubSeq(s, i, i) = "\n"
    /\ \/ i >= 2 /\ SubSeq(s, i - 1, i - 1) = "\n"
       \/ i >= 3 /\ SubSeq(s, i - 2, i - 1) = "\n\r"

\* s holds a header block: some line after the first is blank
WellFormed(s) == \E i \in 1..Len(s) : BlankLineAt(s, i)

\* C14: for a well-formed stream read_headers returns the bytes up to and
\* with the first blank line and no byte more; at every moment the header
\* bytes, then the bytes buffered, then the bytes not yet read are the
\* stream, so what was read ahead is kept for the body.
C14_HeaderBlock ==
    /\ hr.ret \o hr.buf \o hr.src = hr.input
    /\ hr.state = "done" =>
          /\ WellFormed(hr.input)
          /\ BlankLineAt(hr.input, Len(hr.ret))
          /\ \A i \in 1..(Len(hr.ret) - 1) : ~BlankLineAt(hr.input, i)
          /\ Len(hr.buf) <= BufCap
    /\ WellFormed(hr.input) => hr.state # "panicked"

\* the block is returned with bytes of the body read ahead
C14_Witness ==
    /\ hr.state = "done"
    /\ Len(hr.ret) >= 3
    /\ hr.buf # ""

\* C15: once the source has ended with no blank line found, read_headers
\* has returned an error: it has not panicked and is not still reading.
C15_EofIsParseError ==
    /\ hr.state # "panicked"
    /\ (hr.eof /\ ~WellFormed(hr.input)) => hr.state = "error"

\* the writes of the status line and the terminator that an I/O error cut short
TornHead(st) ==
    {i \in DOMAIN st : st[i].site \in {"status", "term"} /\ st[i].n < Len(st[i].buf)}

\* C21: when the write of the status line or of its terminator is cut
\* short by an I/O error the response counts as sent; nothing follows the
\* cut in the same operation; afterwards every set_response and
\* send_response fails and writes nothing, no write adds a status line,
\* a terminator or a 500 response, and the end of the handler call adds
\* nothing to the bytes written.
C21_SentBeforeStatus ==
    /\ [](TornHead(stream) # {} => client.sent)
    /\ [][(TornHead(stream) = {} /\ TornHead(stream') # {})
              => /\ TornHead(stream') = {Len(stream')}
                 /\ client'.sent]_vars
    /\ [][TornHead(stream) # {}
              => /\ client'.sent
                 /\ Len(stream') >= Len(stream)
                 /\ SubSeq(stream', 1, Len(stream)) = stream
                 /\ \A i \in (Len(stream) + 1)..Len(stream') :
                        stream'[i].site \in {"body", "raw"}
                 /\ (ops' = ops + 1 /\ last'.op \in {"set_response", "send_response"})
                        => (~last'.ok /\ stream' = stream
                            /\ client'.code = client.code
                            /\ client'.message = client.message)
                 /\ (InHandler /\ outcome' # "none") => stream' = stream]_vars

\* the status line was cut partway, a later set_response was refused, the
\* handler failed, and the wire holds the cut status line alone
C21_Witness ==
    /\ stage = "closed"
    /\ outcome = "err"
    /\ Len(stream) = 1
    /\ stream[1].site = "status"
    /\ stream[1].n > 0
    /\ stream[1].n < Len(stream[1].buf)
    /\ last.op = "set_response"
    /\ ~ContainsControl(last.arg)
    /\ ~last.ok

====
